---- MODULE Spec2Model ----
(***************************************************************************)
(* Batch kernel of faaple/TestOS: the application sequencer (batch.rs),    *)
(* the trap context (trap/context.rs), the trap dispatcher (trap/mod.rs),  *)
(* the firmware halt (sbi.rs) and the panic handler (lang_items.rs).       *)
(*                                                                         *)
(* The kernel code is modelled as operators over a record K holding the    *)
(* whole machine state; an operator returns the state its code leaves      *)
(* behind.  A call that never returns (shutdown, panic, __restore) leaves  *)
(* K.halt # "no" or K.pc # "kernel", and every caller stops there.         *)
(*                                                                         *)
(* Addresses are byte offsets from the start of RAM (0x80000000), since    *)
(* the model checker's integers are 32 bits wide.  The execution region    *)
(* is scaled down to APP_SIZE_LIMIT bytes, followed by Spill bytes of the  *)
(* memory that lies behind it.                                             *)
(***************************************************************************)
EXTENDS Integers, Sequences, FiniteSets, TLC

VARIABLES
    num_app,      \* AppManager.num_app
    current_app,  \* AppManager.current_app
    app_start,    \* AppManager.app_start, offsets into the image blob
    blob,         \* the linked application images (link_app.S), read only
    mem,          \* memory from APP_BASE_ADDRESS on: the region, then Spill bytes
    icache_sync,  \* TRUE when no store to mem happened since the last fence.i
    kstack,       \* the Trap Contexts stored in KERNEL_STACK, by address
    sscratch,     \* CSR sscratch: the kernel stack pointer while in user mode
    sstatus,      \* CSR sstatus
    resumed,      \* what __restore loaded since the kernel was last entered: [ptr, cx]
    console,      \* the lines the kernel printed since it was last entered
    halt,         \* "no", "shutdown" (SBI shutdown called), "panic" (panic loop)
    pc,           \* "boot", "kernel", "user", "super", "unit"
    borrowed,     \* APP_MANAGER's RefCell is mutably borrowed
    tbl_reads,    \* indices of app_start that load_app has read
    loaded,       \* ids of the applications load_app copied, in order
    sys_call,     \* the call made to syscall() since the kernel was last entered
    call          \* the last operation run: its name, inputs and result

vars == <<num_app, current_app, app_start, blob, mem, icache_sync, kstack,
          sscratch, sstatus, resumed, console, halt, pc, borrowed, tbl_reads,
          loaded, sys_call, call>>

-----------------------------------------------------------------------------
(* Bounds of the model *)

MaxApps == 2
APP_SIZE_LIMIT == 2
Spill == 1

MemLen == APP_SIZE_LIMIT + Spill
BlobLen == MemLen
Byte == 0..2
Vals == {0, 1}
RetVals == {0, 2}

-----------------------------------------------------------------------------
(* Program constants *)

USER_STACK_SIZE == 8192
KERNEL_STACK_SIZE == 8192
MAX_APP_NUM == 16
APP_BASE_ADDRESS == 4194304
KERNEL_STACK_BASE == 2228224
USER_STACK_BASE == 2236416
CX_SIZE == 272
SPP_BIT == 256
SPIE_BIT == 32
SIE_BIT == 2
SBI_SHUTDOWN == 8
SYSCALL_EXIT == 93
SYSCALL_WRITE == 64

Causes == {"UserEnvCall", "StoreFault", "StorePageFault", "IllegalInstruction",
           "LoadFault"}
Recognized == {"UserEnvCall", "StoreFault", "StorePageFault", "IllegalInstruction"}

Bit(s, b) == (s \div b) % 2
SetBit(s, b, v) == s - Bit(s, b) * b + v * b

ZeroRegs == [i \in 0..31 |-> 0]
ZeroCx == [x |-> ZeroRegs, sstatus |-> 0, sepc |-> 0]
NoResume == [ptr |-> 0, cx |-> ZeroCx]
NoSyscall == [id |-> 0, args |-> <<0, 0, 0>>]

-----------------------------------------------------------------------------
(* The machine state as one record *)

St == [num_app |-> num_app, current_app |-> current_app, app_start |-> app_start,
       blob |-> blob, mem |-> mem, icache_sync |-> icache_sync, kstack |-> kstack,
       sscratch |-> sscratch, sstatus |-> sstatus, resumed |-> resumed,
       console |-> console, halt |-> halt, pc |-> pc, borrowed |-> borrowed,
       tbl_reads |-> tbl_reads, loaded |-> loaded, sys_call |-> sys_call]

Commit(K) ==
    /\ num_app' = K.num_app
    /\ current_app' = K.current_app
    /\ app_start' = K.app_start
    /\ blob' = K.blob
    /\ mem' = K.mem
    /\ icache_sync' = K.icache_sync
    /\ kstack' = K.kstack
    /\ sscratch' = K.sscratch
    /\ sstatus' = K.sstatus
    /\ resumed' = K.resumed
    /\ console' = K.console
    /\ halt' = K.halt
    /\ pc' = K.pc
    /\ borrowed' = K.borrowed
    /\ tbl_reads' = K.tbl_reads
    /\ loaded' = K.loaded
    /\ sys_call' = K.sys_call

Going(K) == K.halt = "no" /\ K.pc = "kernel"

-----------------------------------------------------------------------------
(* console.rs, lang_items.rs, sbi.rs *)

println(K, line) == [K EXCEPT !.console = Append(@, line)]

\* faulty variant: the panic handler prints and returns to the code that panicked
panic_returns(K) == println(K, <<"[kernel] Panicked">>)

panic(K) == [println(K, <<"[kernel] Panicked">>) EXCEPT !.halt = "panic"]

\* faulty variant: the firmware call has no effect
sbi_call_ignored(K, which) == K

sbi_call(K, which) ==
    IF which = SBI_SHUTDOWN THEN [K EXCEPT !.halt = "shutdown"] ELSE K

\* faulty variant: the firmware call comes back and shutdown returns to its caller
shutdown_returns(K) == K

shutdown(K) ==
    LET K1 == sbi_call(K, SBI_SHUTDOWN)
    IN  IF K1.halt = "no" THEN panic(K1) ELSE K1

-----------------------------------------------------------------------------
(* sync: UPSafeCell<AppManager>, a RefCell that panics on a second borrow *)

\* faulty variant: a handle is handed out whether or not one is outstanding
exclusive_access_unchecked(K) == [K EXCEPT !.borrowed = TRUE]

exclusive_access(K) ==
    IF K.borrowed THEN panic(K) ELSE [K EXCEPT !.borrowed = TRUE]

drop(K) == [K EXCEPT !.borrowed = FALSE]

-----------------------------------------------------------------------------
(* batch.rs: AppManager *)

print_app_info(K) ==
    LET Line(i) == <<"[kernel] app", i, K.app_start[i], K.app_start[i + 1]>>
        Lines == [i \in 1..K.num_app |-> Line(i - 1)]
    IN  [K EXCEPT !.console = (@ \o <<<<"[kernel] num_app", K.num_app>>>>) \o Lines]

fence_i(K) == [K EXCEPT !.icache_sync = TRUE]

\* faulty variant: the region is not cleared before the copy
fill_zero_skipped(K) == [K EXCEPT !.icache_sync = FALSE]

\* from_raw_parts_mut(APP_BASE_ADDRESS, APP_SIZE_LIMIT).fill(0)
fill_zero(K) ==
    [K EXCEPT !.mem = [i \in 0..(MemLen - 1) |-> IF i < APP_SIZE_LIMIT THEN 0 ELSE @[i]],
              !.icache_sync = FALSE]

\* app_dst = from_raw_parts_mut(APP_BASE_ADDRESS, len); app_dst.copy_from_slice(app_src):
\* len bytes are stored from APP_BASE_ADDRESS on, whatever APP_SIZE_LIMIT is.
copy_from_slice(K, src, len) ==
    [K EXCEPT !.mem = [i \in 0..(MemLen - 1) |-> IF i < len THEN K.blob[src + i] ELSE @[i]],
              !.icache_sync = (len = 0) /\ @]

\* faulty variant: the bounds check is off by one
load_app_off_by_one(K, app_id) ==
    IF app_id > K.num_app
    THEN shutdown(println(K, <<"All application completed!">>))
    ELSE LET K1 == println(K, <<"[kernel] Loading app", app_id>>)
             K2 == fence_i(K1)
             K3 == fill_zero(K2)
             src == K3.app_start[app_id]
             len == K3.app_start[app_id + 1] - K3.app_start[app_id]
             K4 == [K3 EXCEPT !.tbl_reads = @ \cup {app_id, app_id + 1}]
             K5 == copy_from_slice(K4, src, len)
         IN  [K5 EXCEPT !.loaded = Append(@, app_id)]

load_app(K, app_id) ==
    IF app_id >= K.num_app
    THEN shutdown(println(K, <<"All application completed!">>))
    ELSE LET K1 == println(K, <<"[kernel] Loading app", app_id>>)
             K2 == fence_i(K1)
             K3 == fill_zero(K2)
             src == K3.app_start[app_id]
             len == K3.app_start[app_id + 1] - K3.app_start[app_id]
             K4 == [K3 EXCEPT !.tbl_reads = @ \cup {app_id, app_id + 1}]
             K5 == copy_from_slice(K4, src, len)
         IN  [K5 EXCEPT !.loaded = Append(@, app_id)]

get_current_app(K) == K.current_app

\* faulty variant: the index is advanced by two
move_to_next_app_by_two(K) == [K EXCEPT !.current_app = @ + 2]

move_to_next_app(K) == [K EXCEPT !.current_app = @ + 1]

-----------------------------------------------------------------------------
(* trap/context.rs: TrapContext *)

set_spp(s, spp) == SetBit(s, SPP_BIT, IF spp = "User" THEN 0 ELSE 1)

spp_of(s) == IF Bit(s, SPP_BIT) = 0 THEN "User" ELSE "Supervisor"

set_sp(cx, sp) == [cx EXCEPT !.x[2] = sp]

\* faulty variant: the previous privilege level is left as the CSR has it
app_init_context_keeps_spp(K, entry, sp) ==
    LET cx == [x |-> ZeroRegs, sstatus |-> K.sstatus, sepc |-> entry]
    IN  set_sp(cx, sp)

app_init_context(K, entry, sp) ==
    LET status == set_spp(K.sstatus, "User")
        cx == [x |-> ZeroRegs, sstatus |-> status, sepc |-> entry]
    IN  set_sp(cx, sp)

-----------------------------------------------------------------------------
(* batch.rs: the stacks *)

KernelStack_get_sp == KERNEL_STACK_BASE + KERNEL_STACK_SIZE

UserStack_get_sp == USER_STACK_BASE + USER_STACK_SIZE

\* KERNEL_STACK is zeroed memory (bss) wherever no context was stored
CxAt(K, addr) ==
    IF addr \in DOMAIN K.kstack THEN K.kstack[addr]
    ELSE ZeroCx

StoreCx(K, addr, cx) ==
    [K EXCEPT !.kstack = [a \in (DOMAIN @) \cup {addr} |-> IF a = addr THEN cx ELSE @[a]]]

\* faulty variant: the context is pushed below the lowest context already on the stack
push_context_grows(K, cx) ==
    LET low == IF DOMAIN K.kstack = {} THEN KernelStack_get_sp
               ELSE CHOOSE a \in DOMAIN K.kstack : \A b \in DOMAIN K.kstack : a <= b
        cx_ptr == low - CX_SIZE
    IN  [K |-> StoreCx(K, cx_ptr, cx), ptr |-> cx_ptr]

\* returns the state after the store and the reference it hands out
push_context(K, cx) ==
    LET cx_ptr == KernelStack_get_sp - CX_SIZE
    IN  [K |-> StoreCx(K, cx_ptr, cx), ptr |-> cx_ptr]

-----------------------------------------------------------------------------
(* trap.S: __alltraps and __restore, with the hardware's trap entry and sret *)

\* trap taken from user mode: SPIE := SIE, SIE := 0, SPP := User
trap_entry_status(s) ==
    SetBit(SetBit(SetBit(s, SPIE_BIT, Bit(s, SIE_BIT)), SIE_BIT, 0), SPP_BIT, 0)

\* sret: SIE := SPIE, SPIE := 1, SPP := User
sret_status(s) ==
    SetBit(SetBit(SetBit(s, SIE_BIT, Bit(s, SPIE_BIT)), SPIE_BIT, 1), SPP_BIT, 0)

\* sp := sscratch - 34*8; store x1, x3..x31, the user sp, sstatus and sepc there
alltraps(K, ux, upc) ==
    LET cx_ptr == K.sscratch - CX_SIZE
        status == trap_entry_status(K.sstatus)
        old == CxAt(K, cx_ptr)
        cx == [x |-> [i \in 0..31 |-> IF i = 0 THEN old.x[0] ELSE ux[i]],
               sstatus |-> status, sepc |-> upc]
        K1 == [K EXCEPT !.sstatus = status, !.sscratch = ux[2], !.pc = "kernel",
                        !.sys_call = NoSyscall, !.console = <<>>, !.resumed = NoResume]
    IN  [K |-> StoreCx(K1, cx_ptr, cx), ptr |-> cx_ptr]

\* sp := a0; reload sstatus, sepc and the registers; sscratch := a0 + 34*8; sret
restore(K, cx_addr) ==
    LET cx == CxAt(K, cx_addr)
    IN  [K EXCEPT !.sstatus = sret_status(cx.sstatus),
                  !.sscratch = cx_addr + CX_SIZE,
                  !.resumed = [ptr |-> cx_addr, cx |-> cx],
                  !.pc = IF spp_of(cx.sstatus) = "User" THEN "user" ELSE "super"]

-----------------------------------------------------------------------------
(* batch.rs: run_next_app *)

\* faulty variant: the handle is still held when the application is resumed
run_next_app_keeps_handle(K) ==
    LET K1 == exclusive_access(K)
        cur == get_current_app(K1)
        K2 == load_app(K1, cur)
        K3 == move_to_next_app(K2)
        P == push_context(K3, app_init_context(K3, APP_BASE_ADDRESS, UserStack_get_sp))
    IN  IF ~Going(K1) THEN K1
        ELSE IF ~Going(K2) THEN K2
        ELSE restore(P.K, P.ptr)

\* faulty variant: the context left in the slot is reused, with pc and sp reset
run_next_app_reuses_slot(K) ==
    LET K1 == exclusive_access(K)
        cur == get_current_app(K1)
        K2 == load_app(K1, cur)
        K3 == move_to_next_app(K2)
        K4 == drop(K3)
        fresh == app_init_context(K4, APP_BASE_ADDRESS, UserStack_get_sp)
        old == CxAt(K4, KernelStack_get_sp - CX_SIZE)
        P == push_context(K4, [fresh EXCEPT !.x = [old.x EXCEPT ![2] = fresh.x[2]]])
    IN  IF ~Going(K1) THEN K1
        ELSE IF ~Going(K2) THEN K2
        ELSE restore(P.K, P.ptr)

\* faulty variant: the index is not advanced after the load
run_next_app_no_advance(K) ==
    LET K1 == exclusive_access(K)
        K2 == load_app(K1, get_current_app(K1))
        K4 == drop(K2)
        P == push_context(K4, app_init_context(K4, APP_BASE_ADDRESS, UserStack_get_sp))
    IN  IF ~Going(K1) THEN K1
        ELSE IF ~Going(K2) THEN K2
        ELSE restore(P.K, P.ptr)

\* faulty variant: the index is advanced before the application is loaded
run_next_app_advance_first(K) ==
    LET K1 == exclusive_access(K)
        K2 == move_to_next_app(K1)
        K3 == load_app(K2, get_current_app(K2))
        K4 == drop(K3)
        P == push_context(K4, app_init_context(K4, APP_BASE_ADDRESS, UserStack_get_sp))
    IN  IF ~Going(K1) THEN K1
        ELSE IF ~Going(K3) THEN K3
        ELSE restore(P.K, P.ptr)

run_next_app(K) ==
    LET K1 == exclusive_access(K)
        cur == get_current_app(K1)
        K2 == load_app(K1, cur)
        K3 == move_to_next_app(K2)
        K4 == drop(K3)
        P == push_context(K4, app_init_context(K4, APP_BASE_ADDRESS, UserStack_get_sp))
    IN  IF ~Going(K1) THEN K1
        ELSE IF ~Going(K2) THEN K2
        ELSE restore(P.K, P.ptr)

-----------------------------------------------------------------------------
(* syscall: the system-call handlers.  An exit call ends the application  *)
(* and runs the next one; any other call returns a result value.          *)

syscall(K, id, args, ret) ==
    LET K1 == [K EXCEPT !.sys_call = [id |-> id, args |-> args]]
    IN  IF id = SYSCALL_EXIT
        THEN run_next_app(println(K1, <<"[kernel] Application exited">>))
        ELSE K1

-----------------------------------------------------------------------------
(* trap/mod.rs: trap_handler.  cx is the address of the saved context;    *)
(* ret is the value a returning system-call handler hands back.           *)

\* faulty variant: the saved pc is not moved past the ecall instruction
trap_handler_same_pc(K, cx, scause, stval, ret) ==
    CASE scause = "UserEnvCall" ->
            LET c1 == CxAt(K, cx)
                K2 == syscall(K, c1.x[17], <<c1.x[10], c1.x[11], c1.x[12]>>, ret)
            IN  IF ~Going(K2) THEN K2
                ELSE StoreCx(K2, cx, [CxAt(K2, cx) EXCEPT !.x[10] = ret])
      [] scause \in {"StoreFault", "StorePageFault"} ->
            run_next_app(println(K, <<"[kernel] PageFault in application, kernel killed it.">>))
      [] scause = "IllegalInstruction" ->
            run_next_app(println(K, <<"[kernel] IllegalInstruction in application, kernel killed it.">>))
      [] OTHER -> panic(K)

\* faulty variant: the result of the system call is stored in x11
trap_handler_result_in_a1(K, cx, scause, stval, ret) ==
    CASE scause = "UserEnvCall" ->
            LET K1 == StoreCx(K, cx, [CxAt(K, cx) EXCEPT !.sepc = @ + 4])
                c1 == CxAt(K1, cx)
                K2 == syscall(K1, c1.x[17], <<c1.x[10], c1.x[11], c1.x[12]>>, ret)
            IN  IF ~Going(K2) THEN K2
                ELSE StoreCx(K2, cx, [CxAt(K2, cx) EXCEPT !.x[11] = ret])
      [] scause \in {"StoreFault", "StorePageFault"} ->
            run_next_app(println(K, <<"[kernel] PageFault in application, kernel killed it.">>))
      [] scause = "IllegalInstruction" ->
            run_next_app(println(K, <<"[kernel] IllegalInstruction in application, kernel killed it.">>))
      [] OTHER -> panic(K)

\* faulty variant: a fault is reported and the handler returns the context it was given
trap_handler_fault_returns(K, cx, scause, stval, ret) ==
    CASE scause = "UserEnvCall" ->
            LET K1 == StoreCx(K, cx, [CxAt(K, cx) EXCEPT !.sepc = @ + 4])
                c1 == CxAt(K1, cx)
                K2 == syscall(K1, c1.x[17], <<c1.x[10], c1.x[11], c1.x[12]>>, ret)
            IN  IF ~Going(K2) THEN K2
                ELSE StoreCx(K2, cx, [CxAt(K2, cx) EXCEPT !.x[10] = ret])
      [] scause \in {"StoreFault", "StorePageFault"} ->
            println(K, <<"[kernel] PageFault in application, kernel killed it.">>)
      [] scause = "IllegalInstruction" ->
            println(K, <<"[kernel] IllegalInstruction in application, kernel killed it.">>)
      [] OTHER -> panic(K)

trap_handler(K, cx, scause, stval, ret) ==
    CASE scause = "UserEnvCall" ->
            LET K1 == StoreCx(K, cx, [CxAt(K, cx) EXCEPT !.sepc = @ + 4])
                c1 == CxAt(K1, cx)
                K2 == syscall(K1, c1.x[17], <<c1.x[10], c1.x[11], c1.x[12]>>, ret)
            IN  IF ~Going(K2) THEN K2
                ELSE StoreCx(K2, cx, [CxAt(K2, cx) EXCEPT !.x[10] = ret])
      [] scause \in {"StoreFault", "StorePageFault"} ->
            run_next_app(println(K, <<"[kernel] PageFault in application, kernel killed it.">>))
      [] scause = "IllegalInstruction" ->
            run_next_app(println(K, <<"[kernel] IllegalInstruction in application, kernel killed it.">>))
      [] OTHER -> panic(K)

-----------------------------------------------------------------------------
(* Initial states *)

\* link_app.S: num_app, then num_app + 1 ascending boundaries, the images back to back
TableOf(b, n) == [i \in 0..MAX_APP_NUM |-> IF i <= n THEN b[i] ELSE 0]

Boundaries(n) ==
    {b \in [0..n -> 0..BlobLen] : b[0] = 0 /\ \A i \in 0..(n - 1) : b[i] <= b[i + 1]}

Blobs == {[i \in 0..(BlobLen - 1) |-> (i % 2) + 1], [i \in 0..(BlobLen - 1) |-> 2 - (i % 3)]}


InitCommon ==
    /\ num_app \in 0..MaxApps
    /\ \E b \in Boundaries(num_app) : app_start = TableOf(b, num_app)
    /\ blob \in Blobs
    /\ icache_sync = TRUE
    /\ kstack = <<>>
    /\ sscratch = 0
    /\ resumed = NoResume
    /\ console = <<>>
    /\ halt = "no"
    /\ borrowed = FALSE
    /\ tbl_reads = {}
    /\ loaded = <<>>
    /\ sys_call = NoSyscall
    /\ call = [op |-> "init"]

Init ==
    /\ InitCommon
    /\ current_app = 0
    /\ mem = [i \in 0..(MemLen - 1) |-> 2]
    /\ sstatus \in {0, SPP_BIT + SPIE_BIT}
    /\ pc = "boot"

-----------------------------------------------------------------------------
(* The kernel: boot, then one step per trap taken from user mode *)

\* main.rs: rust_main
rust_main(K) ==
    LET K1 == println(K, <<"[kernel] Hello, world!">>)
        K2 == exclusive_access(K1)
        K3 == drop(print_app_info(K2))
    IN  IF ~Going(K2) THEN K2 ELSE run_next_app(K3)

Boot ==
    /\ pc = "boot"
    /\ halt = "no"
    /\ Commit(rust_main([St EXCEPT !.pc = "kernel"]))
    /\ call' = [op |-> "rust_main"]

Running == IF loaded = <<>> THEN -1 ELSE loaded[Len(loaded)]

ArgTriples == {<<0, 0, 0>>, <<1, 0, 0>>, <<0, 1, 0>>, <<0, 0, 1>>}

\* the registers of the application when it traps: sp, t0, a0..a2 and a7 as given
UserRegs(args, id) ==
    [ZeroRegs EXCEPT ![2] = UserStack_get_sp - 16, ![5] = 1, ![10] = args[1],
                     ![11] = args[2], ![12] = args[3], ![17] = id]

UserPcs == {APP_BASE_ADDRESS + 4 * v : v \in Vals}

\* what a trap brings: the cause, stval, the registers, the pc, and the value a
\* returning system-call handler will hand back
TrapInputs ==
    [scause : {"UserEnvCall"}, stval : {0}, args : ArgTriples, id : {SYSCALL_WRITE},
     upc : UserPcs, ret : RetVals]
    \cup [scause : {"UserEnvCall"}, stval : {0}, args : {<<0, 0, 0>>, <<1, 0, 0>>},
          id : {SYSCALL_EXIT}, upc : {APP_BASE_ADDRESS + 4}, ret : {0}]
    \cup [scause : {"StoreFault", "StorePageFault", "IllegalInstruction"}, stval : {0},
          args : {<<1, 0, 0>>}, id : {SYSCALL_WRITE}, upc : {APP_BASE_ADDRESS + 4}, ret : {0}]
    \cup [scause : Causes \ Recognized, stval : Vals,
          args : {<<1, 0, 0>>}, id : {SYSCALL_WRITE}, upc : {APP_BASE_ADDRESS + 4}, ret : {0}]

\* the trap taken, __alltraps, trap_handler and, when it returns, __restore
TrapWith(in) ==
    LET S == alltraps(St, UserRegs(in.args, in.id), in.upc)
        K1 == trap_handler(S.K, S.ptr, in.scause, in.stval, in.ret)
        K2 == IF Going(K1) THEN restore(K1, S.ptr) ELSE K1
    IN  /\ Commit(K2)
        /\ call' = [op |-> "trap", scause |-> in.scause, stval |-> in.stval,
                    cx |-> S.ptr, saved |-> CxAt(S.K, S.ptr), app |-> Running,
                    cur |-> current_app, returned |-> Going(K1), ret |-> in.ret]

Trap ==
    /\ pc = "user"
    /\ halt = "no"
    /\ \E in \in TrapInputs : TrapWith(in)

Next == Boot \/ Trap

Spec == Init /\ [][Next]_vars

-----------------------------------------------------------------------------
(* The kernel running applications that each come to an end: an           *)
(* application makes returning system calls and then traps with an exit    *)
(* call, a store fault, a store page fault or an illegal instruction.      *)

EndingInputs ==
    {in \in TrapInputs : \/ in.scause \in {"StoreFault", "StorePageFault", "IllegalInstruction"}
                         \/ in.scause = "UserEnvCall" /\ in.id = SYSCALL_EXIT}

\* one returning system call, with either result value
ReturningInputs ==
    {in \in TrapInputs : /\ in.scause = "UserEnvCall"
                         /\ in.id # SYSCALL_EXIT
                         /\ in.args = <<1, 0, 0>>
                         /\ in.upc = APP_BASE_ADDRESS + 4}

SyscallTrap ==
    /\ pc = "user"
    /\ halt = "no"
    /\ \E in \in ReturningInputs : TrapWith(in)

EndingTrap ==
    /\ pc = "user"
    /\ halt = "no"
    /\ \E in \in EndingInputs : TrapWith(in)

NextLive == Boot \/ SyscallTrap \/ EndingTrap

\* Boot can take a step exactly when the kernel has not started, EndingTrap
\* exactly when an application is running; both always change the state
BootEnabled == pc = "boot" /\ halt = "no"
EndingEnabled == pc = "user" /\ halt = "no"

\* weak fairness of Boot and of EndingTrap, WF_vars(Boot) /\ WF_vars(EndingTrap),
\* written out with the enabling conditions above: the boot code runs, and no
\* application makes returning system calls forever
Fairness ==
    /\ ([]<>(~BootEnabled) \/ []<><<Boot>>_vars)
    /\ ([]<>(~EndingEnabled) \/ []<><<EndingTrap>>_vars)

SpecLive == Init /\ [][NextLive]_vars /\ Fairness

-----------------------------------------------------------------------------
(* AppManager::load_app called on its own, with any id, over any content  *)
(* of the region                                                           *)

InitLoad ==
    /\ InitCommon
    /\ current_app \in 0..(MaxApps + 1)
    /\ \E j \in Byte : mem = [i \in 0..(MemLen - 1) |-> j]
    /\ sstatus = 0
    /\ pc = "unit"

\* run_next_app entered with the sequencer as it stands
CallRunNextApp ==
    /\ pc = "unit"
    /\ halt = "no"
    /\ Commit(run_next_app([St EXCEPT !.pc = "kernel", !.console = <<>>]))
    /\ call' = [op |-> "run_next_app"]

CallLoad ==
    /\ pc = "unit"
    /\ halt = "no"
    /\ Len(loaded) < MaxApps
    /\ \E id \in 0..(MaxApps + 1) :
        LET K == load_app([St EXCEPT !.pc = "kernel", !.console = <<>>], id)
        IN  /\ Commit([K EXCEPT !.pc = "unit"])
            /\ call' = [op |-> "load_app", id |-> id]

NextLoad == CallLoad \/ CallRunNextApp

SpecLoad == InitLoad /\ [][NextLoad]_vars

-----------------------------------------------------------------------------
(* AppManager::get_current_app, move_to_next_app and print_app_info called *)
(* on their own, in any order                                               *)

CallCurrent ==
    /\ pc = "unit"
    /\ call' = [op |-> "get_current_app", ret |-> get_current_app(St)]
    /\ UNCHANGED <<num_app, current_app, app_start, blob, mem, icache_sync, kstack,
                   sscratch, sstatus, resumed, console, halt, pc, borrowed, tbl_reads,
                   loaded, sys_call>>

CallAdvance ==
    /\ pc = "unit"
    /\ current_app <= MaxApps
    /\ Commit(move_to_next_app(St))
    /\ call' = [op |-> "move_to_next_app"]

CallReport ==
    /\ pc = "unit"
    /\ Commit(print_app_info([St EXCEPT !.console = <<>>]))
    /\ call' = [op |-> "print_app_info"]

InitSeq ==
    /\ InitCommon
    /\ current_app = 0
    /\ \E j \in Byte : mem = [i \in 0..(MemLen - 1) |-> j]
    /\ sstatus = 0
    /\ pc = "unit"

NextSeq == CallCurrent \/ CallAdvance \/ CallReport

SpecSeq == InitSeq /\ [][NextSeq]_vars

-----------------------------------------------------------------------------
(* TrapContext::app_init_context called on its own, with any entry and sp, *)
(* under any value of the sstatus register                                 *)

Entries == {0, APP_BASE_ADDRESS, APP_BASE_ADDRESS + 4}
Sps == {0, UserStack_get_sp, KernelStack_get_sp}

InitCx ==
    /\ InitCommon
    /\ current_app = 0
    /\ mem = [i \in 0..(MemLen - 1) |-> 0]
    /\ sstatus \in {0, SIE_BIT, SPP_BIT, SPP_BIT + SPIE_BIT}
    /\ pc = "unit"

CallAppInitContext ==
    /\ pc = "unit"
    /\ \E entry \in Entries, sp \in Sps :
        call' = [op |-> "app_init_context", entry |-> entry, sp |-> sp,
                 ret |-> app_init_context(St, entry, sp)]
    /\ UNCHANGED <<num_app, current_app, app_start, blob, mem, icache_sync, kstack,
                   sscratch, sstatus, resumed, console, halt, pc, borrowed, tbl_reads,
                   loaded, sys_call>>

SpecCx == InitCx /\ [][CallAppInitContext]_vars

-----------------------------------------------------------------------------
(* APP_MANAGER.exclusive_access and the release of its handle called on   *)
(* their own, in any order, over any sequencer state                       *)

InitCell ==
    /\ InitCommon
    /\ current_app \in 0..MaxApps
    /\ mem = [i \in 0..(MemLen - 1) |-> 0]
    /\ sstatus = 0
    /\ pc = "unit"

CallExclusiveAccess ==
    /\ pc = "unit"
    /\ halt = "no"
    /\ LET K == exclusive_access([St EXCEPT !.console = <<>>])
       IN  /\ Commit(K)
           /\ call' = [op |-> "exclusive_access", held |-> borrowed,
                       granted |-> (K.halt = "no")]

CallDrop ==
    /\ pc = "unit"
    /\ halt = "no"
    /\ borrowed
    /\ Commit(drop(St))
    /\ call' = [op |-> "drop"]

NextCell == CallExclusiveAccess \/ CallDrop

SpecCell == InitCell /\ [][NextCell]_vars

-----------------------------------------------------------------------------
(* Properties *)

ImageLen(id) == app_start[id + 1] - app_start[id]

\* the region holds image id from its first byte on and zeros behind it
RegionHoldsImage(id) ==
    \A i \in 0..(APP_SIZE_LIMIT - 1) :
        mem[i] = IF i < ImageLen(id) THEN blob[app_start[id] + i] ELSE 0

StoreFaults == {"StoreFault", "StorePageFault"}

\* C1: when application k is running and count > k + 1, a store fault or store
\* page fault leaves the current index at k + 1, the region holding image k + 1,
\* and the boundary table and the count as they were.
C1_FaultIsolation ==
    [][(/\ call'.op = "trap"
        /\ call'.scause \in StoreFaults
        /\ call'.app >= 0
        /\ num_app > call'.app + 1)
       => (/\ current_app' = call'.app + 1
           /\ \A i \in 0..(APP_SIZE_LIMIT - 1) :
                mem'[i] = IF i < ImageLen(call'.app + 1)
                          THEN blob[app_start[call'.app + 1] + i] ELSE 0
           /\ app_start' = app_start
           /\ num_app' = num_app)]_vars

\* C2: after load(id) with id < count the region starts with the bytes of image id
\* and every byte of the region behind them is zero, whatever the region held.
C2_LoadCopiesAndZeroes ==
    (call.op = "load_app" /\ call.id < num_app) => RegionHoldsImage(call.id)

C2_Witness ==
    /\ call.op = "load_app"
    /\ Len(loaded) = 2
    /\ call.id = loaded[2]
    /\ ImageLen(loaded[2]) < ImageLen(loaded[1])
    /\ ImageLen(loaded[2]) < APP_SIZE_LIMIT
    /\ ImageLen(loaded[2]) > 0

\* C3: load(id) with id >= count calls the firmware shutdown and goes no further:
\* no boundary is read, the region is not touched, the current index stays, and
\* no Trap Context is stored or restored.
C3_LoadPastEndHalts ==
    [][(\/ call'.op = "load_app" /\ call'.id >= num_app
        \/ call'.op = "run_next_app" /\ current_app >= num_app)
       => (/\ halt' = "shutdown"
           /\ mem' = mem
           /\ tbl_reads' = tbl_reads
           /\ loaded' = loaded
           /\ current_app' = current_app
           /\ kstack' = kstack
           /\ resumed' = resumed
           /\ pc' # "user")]_vars

C3_Witness ==
    /\ call.op = "load_app"
    /\ call.id > num_app
    /\ halt = "shutdown"
    /\ loaded # <<>>
    /\ \E i \in 0..(APP_SIZE_LIMIT - 1) : mem[i] # 0

\* C4: the current index starts at 0, stays within 0..count, and never decreases.
C4_CurrentInRange ==
    /\ current_app = 0
    /\ [](current_app \in 0..num_app)
    /\ [][current_app' >= current_app]_vars

C4_Witness ==
    /\ pc = "user"
    /\ num_app = MaxApps
    /\ current_app = num_app
    /\ call.op = "trap"

\* C5: current() returns the current index and changes nothing; advance() adds
\* exactly one to the current index and changes nothing else.
C5_CurrentPureAdvanceByOne ==
    [][/\ call'.op = "get_current_app"
          => (call'.ret = current_app /\ St' = St)
       /\ call'.op = "move_to_next_app"
          => (/\ current_app' = current_app + 1
              /\ [St EXCEPT !.current_app = 0]' = [St EXCEPT !.current_app = 0])]_vars

C5_Witness ==
    /\ call.op = "move_to_next_app"
    /\ current_app > num_app
    /\ halt = "no"
    /\ loaded = <<>>

\* C6: a user environment call whose handler returns leaves the same context with
\* its saved pc advanced by 4 and x10 holding the value the handler returned for
\* syscall(x17, [x10, x11, x12]) taken from the registers as they were saved.
C6_SyscallRoundTrip ==
    (call.op = "trap" /\ call.scause = "UserEnvCall" /\ call.returned)
    => LET cx == CxAt(St, call.cx)
       IN  /\ cx.sepc = call.saved.sepc + 4
           /\ cx.x[10] = call.ret
           /\ sys_call = [id |-> call.saved.x[17],
                          args |-> <<call.saved.x[10], call.saved.x[11], call.saved.x[12]>>]
           /\ resumed = [ptr |-> call.cx, cx |-> cx]
           /\ pc = "user"

C6_Witness ==
    /\ call.op = "trap"
    /\ call.scause = "UserEnvCall"
    /\ call.returned
    /\ call.ret # call.saved.x[10]
    /\ call.saved.x[11] # call.saved.x[12]
    /\ resumed.cx.sepc = APP_BASE_ADDRESS + 8

\* C7: app_init_context(E, S) has sepc = E, x[2] = S, every other general register
\* zero, and a status whose previous privilege level is user.
C7_BuildInitial ==
    call.op = "app_init_context"
    => /\ call.ret.sepc = call.entry
       /\ call.ret.x[2] = call.sp
       /\ \A i \in (0..31) \ {2} : call.ret.x[i] = 0
       /\ spp_of(call.ret.sstatus) = "User"

C7_Witness ==
    /\ call.op = "app_init_context"
    /\ call.entry = APP_BASE_ADDRESS
    /\ call.sp = UserStack_get_sp
    /\ spp_of(sstatus) = "Supervisor"

\* C8: on a cause that is no user environment call, store fault, store page fault
\* or illegal instruction, the cause and stval are printed and then the firmware
\* shutdown is called.
C8_UnknownTrapShutsDown ==
    (call.op = "trap" /\ call.scause \notin Recognized)
    => /\ halt = "shutdown"
       /\ \E n \in 1..Len(console) :
            console[n] = <<"Unsupported trap", call.scause, call.stval>>

\* C9: load(i) stores no byte outside the region, and an image longer than
\* APP_SIZE_LIMIT ends in a fatal stop.
C9_LoadStaysInRegion ==
    [][call'.op = "load_app"
       => /\ \A i \in APP_SIZE_LIMIT..(MemLen - 1) : mem'[i] = mem[i]
          /\ (call'.id < num_app /\ ImageLen(call'.id) > APP_SIZE_LIMIT)
             => halt' # "no"]_vars

SlotAddr == KernelStack_get_sp - CX_SIZE

\* C10: every restore is handed the context at kernel stack top minus the size of
\* one Trap Context; that slot is the only place a context is ever stored, and a
\* trap saves into it again.
C10_OneFixedSlot ==
    /\ DOMAIN kstack \subseteq {SlotAddr}
    /\ resumed # NoResume => (resumed.ptr = SlotAddr /\ DOMAIN kstack = {SlotAddr})
    /\ pc = "user" => sscratch = KernelStack_get_sp
    /\ call.op = "trap" => call.cx = SlotAddr

C10_Witness ==
    /\ pc = "user"
    /\ Len(loaded) = MaxApps
    /\ call.op = "trap"
    /\ call.scause = "UserEnvCall"
    /\ call.returned
    /\ call.app = MaxApps - 1

\* C11: exclusive_access called while a handle is outstanding panics and leaves
\* the count, the current index and the boundary table as they were; a handle
\* is handed out only when none is outstanding.
C11_SecondBorrowPanics ==
    [][call'.op = "exclusive_access"
       => /\ call'.held = borrowed
          /\ borrowed
             => (/\ halt' = "panic"
                 /\ ~call'.granted
                 /\ console' = <<<<"[kernel] Panicked">>>>
                 /\ num_app' = num_app
                 /\ current_app' = current_app
                 /\ app_start' = app_start
                 /\ borrowed')
          /\ call'.granted => (~borrowed /\ borrowed' /\ halt' = "no")]_vars

C11_Witness ==
    /\ call.op = "exclusive_access"
    /\ call.held
    /\ ~call.granted
    /\ halt = "panic"
    /\ borrowed
    /\ current_app = MaxApps

KillLines == {<<"[kernel] PageFault in application, kernel killed it.">>,
              <<"[kernel] IllegalInstruction in application, kernel killed it.">>}

Faults == {"StoreFault", "StorePageFault", "IllegalInstruction"}

IsExit == call.op = "trap" /\ call.scause = "UserEnvCall" /\ call.saved.x[17] = SYSCALL_EXIT

\* the context slot was restored and holds an initial context for user mode
FreshLaunch ==
    /\ pc = "user"
    /\ halt = "no"
    /\ resumed.ptr = SlotAddr
    /\ resumed.cx.sepc = APP_BASE_ADDRESS
    /\ resumed.cx.x = [ZeroRegs EXCEPT ![2] = UserStack_get_sp]

\* C12: with count = 2 the events are fixed by the table and the images alone:
\* boot loads and resumes application 0; its exit call loads and resumes
\* application 1; a fault in application 1 is a kill followed by the halt in
\* load(2), and the sequencer ends with count 2, index 2, both applications
\* loaded in order and the region holding image 1.
C12_EndToEnd ==
    num_app = 2 =>
    /\ call.op = "rust_main"
       => (/\ console[Len(console)] = <<"[kernel] Loading app", 0>>
           /\ loaded = <<0>>
           /\ FreshLaunch
           /\ RegionHoldsImage(0))
    /\ (IsExit /\ call.app = 0)
       => (/\ console = <<<<"[kernel] Application exited">>, <<"[kernel] Loading app", 1>>>>
           /\ loaded = <<0, 1>>
           /\ FreshLaunch
           /\ RegionHoldsImage(1))
    /\ (call.op = "trap" /\ call.scause \in Faults /\ call.app = 1)
       => (/\ Len(console) = 2
           /\ console[1] \in KillLines
           /\ console[2] = <<"All application completed!">>
           /\ halt = "shutdown"
           /\ resumed = NoResume
           /\ pc # "user"
           /\ loaded = <<0, 1>>
           /\ current_app = 2
           /\ RegionHoldsImage(1)
           /\ \E b \in Boundaries(2) : app_start = TableOf(b, 2))

C12_Witness ==
    /\ num_app = 2
    /\ call.op = "trap"
    /\ call.scause = "StoreFault"
    /\ call.app = 1
    /\ halt = "shutdown"
    /\ ImageLen(0) > 0
    /\ ImageLen(1) > 0
    /\ ImageLen(1) < ImageLen(0)

\* the step boots the kernel, or ends an application by a fault or an exit call
AsksForNext ==
    \/ call'.op = "rust_main"
    \/ call'.op = "trap" /\ call'.scause \in Recognized /\ ~call'.returned

\* C13: the ids loaded are 0, 1, 2, ... in order, each once and none skipped,
\* whatever traps occur; each request for the next application loads exactly
\* the id after the last one loaded, and the first request made once all
\* count applications were loaded halts the machine.
C13_LinearSequencing ==
    /\ [](/\ loaded = [i \in 1..Len(loaded) |-> i - 1]
          /\ Len(loaded) <= num_app
          /\ halt = "shutdown" => Len(loaded) = num_app)
    /\ [][AsksForNext
          => IF Len(loaded) < num_app
             THEN loaded' = Append(loaded, Len(loaded)) /\ halt' = "no"
             ELSE loaded' = loaded /\ halt' = "shutdown" /\ pc' # "user"]_vars

C13_Witness ==
    /\ num_app = MaxApps
    /\ loaded = [i \in 1..MaxApps |-> i - 1]
    /\ halt = "shutdown"
    /\ call.op = "trap"
    /\ call.scause = "IllegalInstruction"

\* C14: the instruction cache is invalidated after the region was written and
\* before the application is resumed: whenever user code runs, no store to the
\* region has happened since the last fence.i.
C14_FenceAfterWrites ==
    pc = "user" => icache_sync

\* C15: after a store fault, store page fault or illegal instruction the handler
\* does not return to the restore path and the fatal path is not reached: either
\* the machine halts with nothing restored, or the context restored is an initial
\* context for the next application, not the one saved for the faulting one.
C15_KilledNeverResumed ==
    (call.op = "trap" /\ call.scause \in Faults)
    => /\ ~call.returned
       /\ halt # "panic"
       /\ \/ halt = "shutdown" /\ resumed = NoResume /\ pc # "user"
          \/ /\ FreshLaunch
             /\ resumed.cx # call.saved
             /\ resumed.cx = CxAt(St, SlotAddr)
             /\ Running = call.app + 1

C15_Witness ==
    /\ call.op = "trap"
    /\ call.scause = "StorePageFault"
    /\ call.app = 0
    /\ call.saved.x[5] # 0
    /\ pc = "user"
    /\ Running = 1

\* C16: a system call whose handler returns resumes the same application from
\* the same slot, and of the saved context only the pc and x10 may differ from
\* what was saved at the trap: the other 31 registers and the status are the
\* same, and the count, the current index, the boundary table, the list of
\* loaded applications and the memory are unchanged.
C16_SyscallFrame ==
    [][(call'.op = "trap" /\ call'.scause = "UserEnvCall" /\ call'.returned)
       => /\ DOMAIN kstack' = {call'.cx}
          /\ \A i \in (0..31) \ {10} : kstack'[call'.cx].x[i] = call'.saved.x[i]
          /\ kstack'[call'.cx].sstatus = call'.saved.sstatus
          /\ resumed'.ptr = call'.cx
          /\ pc' = "user"
          /\ num_app' = num_app
          /\ current_app' = current_app
          /\ app_start' = app_start
          /\ loaded' = loaded
          /\ mem' = mem
          /\ borrowed' = borrowed]_vars

C16_Witness ==
    /\ call.op = "trap"
    /\ call.scause = "UserEnvCall"
    /\ call.returned
    /\ call.saved.x[11] = 1
    /\ call.ret = 2
    /\ kstack[call.cx].x[10] = 2
    /\ kstack[call.cx].x[11] = 1
    /\ \E i \in 0..(APP_SIZE_LIMIT - 1) : mem[i] # 0

UnknownTrap == call.op = "trap" /\ call.scause \notin Recognized

\* C17: a trap with an unrecognized cause ends in the panic loop: the step loads
\* no application, restores no context and leaves the current index and the
\* memory as they were, and no step is ever taken from the state it reaches.
C17_UnknownTrapIsTerminal ==
    /\ [](UnknownTrap => (halt = "panic" /\ resumed = NoResume /\ pc = "kernel"))
    /\ [][/\ UnknownTrap' => (/\ loaded' = loaded
                               /\ current_app' = current_app
                               /\ mem' = mem
                               /\ ~call'.returned)
          /\ ~UnknownTrap]_vars

C17_Witness ==
    /\ UnknownTrap
    /\ halt = "panic"
    /\ num_app = MaxApps
    /\ loaded = <<0>>
    /\ console[Len(console)] = <<"[kernel] Panicked">>

\* C18: when the boot code runs and every launched application eventually ends
\* with a recognized fault or an exit call, all applications 0..count-1 are
\* eventually loaded and launched in turn and the machine eventually halts in
\* load(count).
C18_AllRunThenHalt ==
    /\ \A k \in 0..(MaxApps - 1) : <>(k < num_app => (pc = "user" /\ Running = k))
    /\ <>(/\ halt = "shutdown"
          /\ loaded = [i \in 1..num_app |-> i - 1]
          /\ console[Len(console)] = <<"All application completed!">>)

C18_Witness ==
    /\ num_app = MaxApps
    /\ halt = "shutdown"
    /\ loaded = [i \in 1..MaxApps |-> i - 1]
    /\ call.op = "trap"
    /\ call.app = MaxApps - 1

\* the kernel has just launched an application: at boot, or after an
\* application ended
Launched ==
    /\ pc = "user"
    /\ call.op = "rust_main" \/ (call.op = "trap" /\ ~call.returned)

\* C19: the context an application is launched with does not depend on the
\* registers the previous application left in the slot: its pc is the load
\* address, x2 the top of the user stack, every other general register zero,
\* and its status the status of the trap with previous privilege user.
C19_LaunchContextIsClean ==
    Launched
    => /\ resumed.cx.sepc = APP_BASE_ADDRESS
       /\ resumed.cx.x[2] = UserStack_get_sp
       /\ \A i \in (0..31) \ {2} : resumed.cx.x[i] = 0
       /\ spp_of(resumed.cx.sstatus) = "User"
       /\ call.op = "trap" => resumed.cx.sstatus = call.saved.sstatus
       /\ kstack = [a \in {SlotAddr} |-> resumed.cx]

C19_Witness ==
    /\ Launched
    /\ call.op = "trap"
    /\ call.saved.x[17] = SYSCALL_EXIT
    /\ call.saved.x[10] = 1
    /\ call.saved.x[5] = 1
    /\ call.saved.sepc # APP_BASE_ADDRESS
    /\ Running = 1

\* C20: no handle to the sequencer is outstanding while user code runs or when
\* the kernel is about to boot, so each entry into run_next_app finds the cell
\* free; the only panics are those of unrecognized traps.
C20_HandleReleasedBeforeRestore ==
    /\ pc \in {"boot", "user"} => ~borrowed
    /\ halt = "panic" => UnknownTrap
    /\ (call.op = "trap" /\ call.scause \in Faults) => halt # "panic"

C20_Witness ==
    /\ pc = "user"
    /\ ~borrowed
    /\ Len(loaded) = MaxApps
    /\ call.op = "trap"
    /\ call.scause \in Faults
    /\ call.app = MaxApps - 2

====
